---- MODULE Spec2Model ----
(***************************************************************************)
(* Model of src/src/core-js-dates-tasks.js: a library of date helpers     *)
(* built on the JavaScript Date object.                                    *)
(*                                                                         *)
(* A Date value is modelled in local time as a record                      *)
(*   [valid |-> BOOLEAN, day |-> days since 1970-01-01, ms |-> ms of day]  *)
(* (the full time value day * 86400000 + ms does not fit TLC's 32-bit      *)
(* integers, so order and differences are computed on the pair).  The      *)
(* local time zone is a fixed offset (no daylight-saving transitions).     *)
(* Date objects live in a heap so that aliasing and in-place mutation      *)
(* (setDate) are visible.                                                  *)
(*                                                                         *)
(* The functions share no state.  The caller either calls a function       *)
(* taking strings, or constructs one Date value (NewDate) and calls the    *)
(* functions taking a Date on it, any number of times.  orig records what  *)
(* the caller passed, prev what the Date-stepping functions returned       *)
(* before.  The loops run one iteration per step.                          *)
(***************************************************************************)
EXTENDS Integers, Sequences, FiniteSets, TLC

VARIABLES pc, op, heap, a, i, n, mass, args, result, orig, prev

vars == <<pc, op, heap, a, i, n, mass, args, result, orig, prev>>

----------------------------------------------------------------------------
(* Bounds of the explored inputs *)

MaxOffset == 7
MaxSpan == 13
MaxWork == 3
MaxOff == 3

----------------------------------------------------------------------------
(* The Date built-in as the code uses it *)

MsPerDay == 86400000

\* Day number of the civil date y-m-d (m in 1..12), proleptic Gregorian.
DaysFromCivil(y, m, d) ==
  LET yy  == IF m <= 2 THEN y - 1 ELSE y
      era == yy \div 400
      yoe == yy - era * 400
      mp  == IF m > 2 THEN m - 3 ELSE m + 9
      doy == (153 * mp + 2) \div 5 + d - 1
      doe == yoe * 365 + yoe \div 4 - yoe \div 100 + doy
  IN  era * 146097 + doe - 719468

\* Civil date [y, m, d] (m in 1..12) of a day number.
CivilFromDays(z) ==
  LET zz  == z + 719468
      era == zz \div 146097
      doe == zz - era * 146097
      yoe == (doe - doe \div 1460 + doe \div 36524 - doe \div 146096) \div 365
      doy == doe - (365 * yoe + yoe \div 4 - yoe \div 100)
      mp  == (5 * doy + 2) \div 153
      d   == doy - (153 * mp + 2) \div 5 + 1
      m   == IF mp < 10 THEN mp + 3 ELSE mp - 9
  IN  [y |-> IF m <= 2 THEN yoe + era * 400 + 1 ELSE yoe + era * 400,
       m |-> m, d |-> d]

Undefined == [undefined |-> TRUE]

InvalidDate == [valid |-> FALSE, day |-> 0, ms |-> 0]

\* new Date(year, monthIndex, day): month and day overflow are carried, and
\* a year in 0..99 means 1900 + year.
MakeDate(year, monthIndex, day) ==
  LET y  == IF year >= 0 /\ year <= 99 THEN 1900 + year ELSE year
      ym == y + monthIndex \div 12
      mn == monthIndex % 12
  IN  [valid |-> TRUE, day |-> DaysFromCivil(ym, mn + 1, 1) + day - 1, ms |-> 0]

getFullYear(v) == CivilFromDays(v.day).y

getMonth(v) == CivilFromDays(v.day).m - 1

getDate(v) == CivilFromDays(v.day).d

\* 0 = Sunday .. 6 = Saturday; 1970-01-01 was a Thursday.
getDay(v) == (v.day + 4) % 7

getUTCHours(v) == v.ms \div 3600000

getUTCMinutes(v) == (v.ms \div 60000) % 60

getUTCSeconds(v) == (v.ms \div 1000) % 60

\* i.setDate(k): same year, month and time of day, day-of-month k (carried).
setDate(v, k) ==
  [valid |-> TRUE, day |-> MakeDate(getFullYear(v), getMonth(v), k).day, ms |-> v.ms]

\* x <= y on Date objects (valueOf comparison; false when either is NaN).
DateLE(x, y) ==
  /\ x.valid
  /\ y.valid
  /\ \/ x.day < y.day
     \/ x.day = y.day /\ x.ms <= y.ms

\* new Date(date) with date a Date object: a fresh object ("a") holding a copy.
NewDateAlias(src) == src

NewDateCopy(src) == "a"

----------------------------------------------------------------------------
(* Inputs *)

Times == {0, 43200000 + 1500, MsPerDay - 1}

DateAnchors ==
  { DaysFromCivil(2022, 12, 28), DaysFromCivil(2024, 2, 25),
    DaysFromCivil(2024, 12, 10), DaysFromCivil(1900, 12, 20),
    DaysFromCivil(2000, 12, 20), DaysFromCivil(2100, 12, 20) }

DateInputs ==
  { [valid |-> TRUE, day |-> d + k, ms |-> t] :
      d \in DateAnchors, k \in 0..MaxOffset, t \in Times }

NoPrev == [set |-> FALSE, val |-> Undefined]

DateOps == {"getNextFriday", "getNextFridayThe13th"}

EmptyHeap == [r \in {"date", "a", "b"} |-> Undefined]

Init ==
  /\ pc = "idle"
  /\ op = ""
  /\ heap = EmptyHeap
  /\ a = ""
  /\ i = ""
  /\ n = 0
  /\ mass = <<>>
  /\ args = <<>>
  /\ result = Undefined
  /\ orig = Undefined
  /\ prev = [o \in DateOps |-> NoPrev]

\* The caller constructs the Date value that it then passes to the functions
\* taking a Date.
NewDate ==
  /\ pc = "idle"
  /\ heap["date"] = Undefined
  /\ \E d \in DateInputs :
       /\ heap' = [heap EXCEPT !["date"] = d]
       /\ orig' = d
  /\ UNCHANGED <<pc, op, a, i, n, mass, args, result, prev>>

----------------------------------------------------------------------------
(* getNextFriday *)

NotInputDayLax(k) == k >= 0

NotInputDay(k) == k > 0

Call_getNextFriday ==
  /\ pc = "idle"
  /\ heap["date"] # Undefined
  /\ LET r  == NewDateCopy("date")
         h1 == [heap EXCEPT ![r] = heap["date"]]
         b  == MakeDate(getFullYear(h1[r]), getMonth(h1[r]), getDate(h1[r]) + 7)
     IN  /\ heap' = [h1 EXCEPT !["b"] = b]
         /\ a' = r
         /\ i' = r
  /\ n' = 0
  /\ pc' = "loop"
  /\ op' = "getNextFriday"
  /\ result' = Undefined
  /\ UNCHANGED <<mass, args, orig, prev>>

Step_getNextFriday ==
  /\ pc = "loop"
  /\ op = "getNextFriday"
  /\ IF DateLE(heap[i], heap["b"])
       THEN IF getDay(heap[i]) = 5 /\ NotInputDay(n)
              THEN /\ result' = heap[i]
                   /\ pc' = "done"
                   /\ UNCHANGED <<heap, n>>
              ELSE /\ n' = n + 1
                   /\ heap' = [heap EXCEPT ![i] = setDate(heap[i], getDate(heap[i]) + 1)]
                   /\ UNCHANGED <<result, pc>>
       ELSE /\ result' = heap[a]
            /\ pc' = "done"
            /\ UNCHANGED <<heap, n>>
  /\ UNCHANGED <<op, a, i, mass, args, orig, prev>>

----------------------------------------------------------------------------
(* getNextFridayThe13th *)

\* b = new Date(a.getFullYear() + 1, 0, 0): the last day the loop visits.
ScanLimit(v) == MakeDate(getFullYear(v) + 1, 0, 0)

Call_getNextFridayThe13th ==
  /\ pc = "idle"
  /\ heap["date"] # Undefined
  /\ LET r  == NewDateCopy("date")
         h1 == [heap EXCEPT ![r] = heap["date"]]
     IN  /\ heap' = [h1 EXCEPT !["b"] = ScanLimit(h1[r])]
         /\ a' = r
         /\ i' = r
  /\ pc' = "loop"
  /\ op' = "getNextFridayThe13th"
  /\ result' = Undefined
  /\ UNCHANGED <<n, mass, args, orig, prev>>

Step_getNextFridayThe13th ==
  /\ pc = "loop"
  /\ op = "getNextFridayThe13th"
  /\ IF DateLE(heap[i], heap["b"])
       THEN LET a4 == getDay(heap[i])
                a5 == getDate(heap[i])
            IN  IF a4 = 5 /\ a5 = 13
                  THEN /\ result' = MakeDate(getFullYear(heap[i]), getMonth(heap[i]), a5)
                       /\ pc' = "done"
                       /\ UNCHANGED heap
                  ELSE /\ heap' = [heap EXCEPT ![i] = setDate(heap[i], getDate(heap[i]) + 1)]
                       /\ UNCHANGED <<result, pc>>
       ELSE /\ result' = Undefined
            /\ pc' = "done"
            /\ UNCHANGED heap
  /\ UNCHANGED <<op, a, i, n, mass, args, orig, prev>>

----------------------------------------------------------------------------
(* isLeapYear, getWeekNumberByDate *)

isLeapYear(date) ==
  LET a_ == date
  IN  getFullYear(a_) % 4 = 0

Call_isLeapYear ==
  /\ pc = "idle"
  /\ heap["date"] # Undefined
  /\ LET r == NewDateCopy("date")
     IN  /\ heap' = [heap EXCEPT ![r] = heap["date"]]
         /\ a' = r
         /\ result' = isLeapYear(heap'[r])
  /\ pc' = "done"
  /\ op' = "isLeapYear"
  /\ UNCHANGED <<i, n, mass, args, orig, prev>>

\* Math.ceil((x - y) / 1000 / 60 / 60 / 24 / 7) for Date objects x >= y.
CeilWeeks(x, y) ==
  LET days == x.day - y.day
      rest == x.ms - y.ms
      d    == IF rest < 0 THEN days - 1 ELSE days
      r    == IF rest < 0 THEN rest + MsPerDay ELSE rest
  IN  IF d % 7 = 0 /\ r = 0 THEN d \div 7 ELSE d \div 7 + 1

getWeekNumberByDate(date) ==
  LET a_ == date
      s  == getFullYear(a_)
      b  == MakeDate(s, 0, 0)
  IN  CeilWeeks(a_, b)

Call_getWeekNumberByDate ==
  /\ pc = "idle"
  /\ heap["date"] # Undefined
  /\ LET r == NewDateCopy("date")
     IN  /\ heap' = [heap EXCEPT ![r] = heap["date"]]
         /\ a' = r
         /\ result' = getWeekNumberByDate(heap'[r])
  /\ pc' = "done"
  /\ op' = "getWeekNumberByDate"
  /\ UNCHANGED <<i, n, mass, args, orig, prev>>

----------------------------------------------------------------------------
(* Strings: split, string-to-number conversion, ISO parsing *)

Digits == <<"0", "1", "2", "3", "4", "5", "6", "7", "8", "9">>

IsDigit(c) == \E k \in 1..10 : Digits[k] = c

DigitValue(c) == (CHOOSE k \in 1..10 : Digits[k] = c) - 1

NaN == [nan |-> TRUE, v |-> 0]

\* ToNumber on a string of decimal digits; anything else is NaN ("" is 0).
RECURSIVE ToNumberFrom(_, _)
ToNumberFrom(s, acc) ==
  IF s = "" THEN [nan |-> FALSE, v |-> acc]
  ELSE IF IsDigit(Head(s)) THEN ToNumberFrom(Tail(s), acc * 10 + DigitValue(Head(s)))
  ELSE NaN

ToNumber(s) == ToNumberFrom(s, 0)

\* s.split(sep) for a one-character separator.
RECURSIVE SplitFrom(_, _, _, _)
SplitFrom(s, sep, cur, acc) ==
  IF s = "" THEN Append(acc, cur)
  ELSE IF Head(s) = sep THEN SplitFrom(Tail(s), sep, "", Append(acc, cur))
  ELSE SplitFrom(Tail(s), sep, cur \o Head(s), acc)

Split(s, sep) == SplitFrom(s, sep, "", <<>>)

\* arr[k] (0-based) converted to a number; a missing element is undefined, NaN.
Elem(arr, k) == IF k + 1 <= Len(arr) THEN ToNumber(arr[k + 1]) ELSE NaN

\* new Date(y, m, d, 0, 0, 0) with arguments that may be NaN.
MakeDateNum(y, m, d) ==
  IF y.nan \/ m.nan \/ d.nan THEN InvalidDate ELSE MakeDate(y.v, m.v, d.v)

\* new Date('YYYY-MM-DDTHH:mm:ss.sssZ'), read in UTC.
ParseISO(s) ==
  LET y  == ToNumber(SubSeq(s, 1, 4))
      mo == ToNumber(SubSeq(s, 6, 7))
      d  == ToNumber(SubSeq(s, 9, 10))
      h  == ToNumber(SubSeq(s, 12, 13))
      mi == ToNumber(SubSeq(s, 15, 16))
      se == ToNumber(SubSeq(s, 18, 19))
      ms == ToNumber(SubSeq(s, 21, 23))
  IN  IF Len(s) # 24 \/ y.nan \/ mo.nan \/ d.nan \/ h.nan \/ mi.nan \/ se.nan \/ ms.nan
        THEN InvalidDate
        ELSE [valid |-> TRUE, day |-> DaysFromCivil(y.v, mo.v, d.v),
              ms |-> ((h.v * 60 + mi.v) * 60 + se.v) * 1000 + ms.v]

getUTCFullYear(v) == CivilFromDays(v.day).y

getUTCMonth(v) == CivilFromDays(v.day).m - 1

getUTCDate(v) == CivilFromDays(v.day).d

----------------------------------------------------------------------------
(* What the caller writes: dates rendered as the strings the functions take *)

TwoChars(x) == IF x < 10 THEN "0" \o ToString(x) ELSE ToString(x)

ThreeChars(x) == IF x < 10 THEN "00" \o ToString(x)
                 ELSE IF x < 100 THEN "0" \o ToString(x) ELSE ToString(x)

\* 'YYYY-MM-DD' of a day number.
IsoDay(day) ==
  LET c == CivilFromDays(day)
  IN  ToString(c.y) \o "-" \o TwoChars(c.m) \o "-" \o TwoChars(c.d)

\* 'YYYY-MM-DDTHH:mm:ss.sssZ' of a UTC instant.
IsoInstant(day, ms) ==
  IsoDay(day) \o "T" \o TwoChars(ms \div 3600000) \o ":" \o TwoChars((ms \div 60000) % 60)
    \o ":" \o TwoChars((ms \div 1000) % 60) \o "." \o ThreeChars(ms % 1000) \o "Z"

\* 'DD-MM-YYYY' of a day number.
DayMonthYear(day) ==
  LET c == CivilFromDays(day)
  IN  TwoChars(c.d) \o "-" \o TwoChars(c.m) \o "-" \o ToString(c.y)

----------------------------------------------------------------------------
(* isDateInPeriod *)

isDateInPeriod(date, period) ==
  LET arr1 == Split(date, "-")
      arr2 == Split(period.start, "-")
      arr3 == Split(period.end, "-")
      a_   == MakeDateNum(Elem(arr1, 0), Elem(arr1, 1), Elem(arr1, 2))
      b    == MakeDateNum(Elem(arr2, 0), Elem(arr2, 1), Elem(arr2, 2))
      c    == MakeDateNum(Elem(arr3, 0), Elem(arr3, 1), Elem(arr3, 2))
  IN  DateLE(b, a_) /\ DateLE(a_, c)

PeriodAnchor == DaysFromCivil(2024, 1, 29)

TimeSuffixes == {"", "T10:30:00"}

Call_isDateInPeriod ==
  /\ pc = "idle"
  /\ heap["date"] = Undefined
  /\ \E d \in 0..MaxOffset, s \in 0..MaxOffset, e \in 0..MaxOffset, t \in TimeSuffixes :
       /\ s <= e
       /\ args' = [date |-> IsoDay(PeriodAnchor + d) \o t,
                   period |-> [start |-> IsoDay(PeriodAnchor + s) \o t,
                               end |-> IsoDay(PeriodAnchor + e) \o t]]
       /\ orig' = [date |-> PeriodAnchor + d, start |-> PeriodAnchor + s,
                   end |-> PeriodAnchor + e]
       /\ result' = isDateInPeriod(args'.date, args'.period)
  /\ pc' = "done"
  /\ op' = "isDateInPeriod"
  /\ UNCHANGED <<heap, a, i, n, mass, prev>>

----------------------------------------------------------------------------
(* formatDate *)

formatDate(date) ==
  LET a_ == ParseISO(date)
      a2 == IF getUTCHours(a_) >= 12 THEN "PM" ELSE "AM"
      a3 == IF getUTCMinutes(a_) >= 9 THEN ToString(getUTCMinutes(a_))
            ELSE "0" \o ToString(getUTCMinutes(a_))
      a4 == IF getUTCSeconds(a_) >= 9 THEN ToString(getUTCSeconds(a_))
            ELSE "0" \o ToString(getUTCSeconds(a_))
      b  == IF a2 = "PM"
              THEN IF getUTCHours(a_) = 12 /\ getUTCMinutes(a_) = 59 /\ getUTCMinutes(a_) = 59
                     THEN ToString(getUTCHours(a_)) \o ":" \o a3 \o ":" \o a4
                     ELSE ToString(getUTCHours(a_) - 12) \o ":" \o a3 \o ":" \o a4
              ELSE ToString(getUTCHours(a_)) \o ":" \o a3 \o ":" \o a4
  IN  ToString(getUTCMonth(a_) + 1) \o "/" \o ToString(getUTCDate(a_)) \o "/"
        \o ToString(getUTCFullYear(a_)) \o ", " \o b \o " " \o a2

FormatDays == {DaysFromCivil(2024, 2, 1), DaysFromCivil(2010, 12, 15)}

FormatSeconds == {0, 8, 9, 10, 59}

Call_formatDate ==
  /\ pc = "idle"
  /\ heap["date"] = Undefined
  /\ \E d \in FormatDays, h \in 0..23, m \in 0..59, s \in FormatSeconds :
       LET ms == ((h * 60 + m) * 60 + s) * 1000
       IN  /\ args' = [date |-> IsoInstant(d, ms)]
           /\ orig' = [valid |-> TRUE, day |-> d, ms |-> ms]
           /\ result' = formatDate(args'.date)
  /\ pc' = "done"
  /\ op' = "formatDate"
  /\ UNCHANGED <<heap, a, i, n, mass, prev>>

----------------------------------------------------------------------------
(* getCountDaysOnPeriod *)

\* A number that may have a fractional part: num / den.
Quotient(num, den) == [num |-> num, den |-> den]

\* b - a on Date objects, in milliseconds.
DateDiff(y, x) == (y.day - x.day) * MsPerDay + (y.ms - x.ms)

getCountDaysOnPeriod(dateStart, dateEnd) ==
  LET a_   == ParseISO(dateStart)
      b    == ParseISO(dateEnd)
      summ == Quotient(DateDiff(b, a_), MsPerDay)
  IN  Quotient(summ.num + summ.den, summ.den)

CountAnchor == DaysFromCivil(2024, 2, 1)

Call_getCountDaysOnPeriod ==
  /\ pc = "idle"
  /\ heap["date"] = Undefined
  /\ \E k \in 0..MaxSpan, t1 \in Times, t2 \in Times :
       /\ k > 0 \/ t1 <= t2
       /\ args' = [dateStart |-> IsoInstant(CountAnchor, t1),
                   dateEnd |-> IsoInstant(CountAnchor + k, t2)]
       /\ orig' = [start |-> [valid |-> TRUE, day |-> CountAnchor, ms |-> t1],
                   end |-> [valid |-> TRUE, day |-> CountAnchor + k, ms |-> t2]]
       /\ result' = getCountDaysOnPeriod(args'.dateStart, args'.dateEnd)
  /\ pc' = "done"
  /\ op' = "getCountDaysOnPeriod"
  /\ UNCHANGED <<heap, a, i, n, mass, prev>>

----------------------------------------------------------------------------
(* getWorkSchedule *)

\* `${x}` for x a day or month number, with the code's own zero padding.
Pad(x) == IF x <= 9 THEN "0" \o ToString(x) ELSE ToString(x)

\* n2 <= countWorkDays: the cycle position is one of the working days.
InWorkRangeStrict(n2, countWorkDays) == n2 < countWorkDays

InWorkRange(n2, countWorkDays) == n2 <= countWorkDays

ScheduleAnchors ==
  {DaysFromCivil(2023, 12, 25), DaysFromCivil(2024, 2, 24), DaysFromCivil(2024, 9, 5)}

Call_getWorkSchedule ==
  /\ pc = "idle"
  /\ heap["date"] = Undefined
  /\ \E s \in ScheduleAnchors, k \in 0..MaxSpan, w \in 1..MaxWork, o \in 1..MaxOff :
       /\ args' = [period |-> [start |-> DayMonthYear(s), end |-> DayMonthYear(s + k)],
                   countWorkDays |-> w, countOffDays |-> o]
       /\ orig' = [start |-> s, end |-> s + k]
       /\ LET a_ == Split(args'.period.start, "-")
              b  == Split(args'.period.end, "-")
              aa == MakeDateNum(Elem(a_, 2), [nan |-> Elem(a_, 1).nan, v |-> Elem(a_, 1).v - 1],
                                Elem(a_, 0))
              bb == MakeDateNum(Elem(b, 2), [nan |-> Elem(b, 1).nan, v |-> Elem(b, 1).v - 1],
                                Elem(b, 0))
          IN  heap' = [heap EXCEPT !["a"] = aa, !["b"] = bb]
  /\ a' = "a"
  /\ i' = "a"
  /\ n' = 1
  /\ mass' = <<>>
  /\ pc' = "loop"
  /\ op' = "getWorkSchedule"
  /\ result' = Undefined
  /\ UNCHANGED prev

Step_getWorkSchedule ==
  /\ pc = "loop"
  /\ op = "getWorkSchedule"
  /\ IF DateLE(heap[i], heap["b"])
       THEN LET day   == Pad(getDate(heap[i]))
                month == Pad(getMonth(heap[i]) + 1)
                entry == day \o "-" \o month \o "-" \o ToString(getFullYear(heap[i]))
            IN  /\ IF InWorkRange(n, args.countWorkDays)
                     THEN /\ mass' = Append(mass, entry)
                          /\ n' = n + 1
                     ELSE IF n > args.countWorkDays + args.countOffDays
                       THEN /\ mass' = Append(mass, entry)
                            /\ n' = 2
                       ELSE IF n > args.countWorkDays
                               /\ n <= args.countWorkDays + args.countOffDays
                         THEN /\ n' = n + 1
                              /\ UNCHANGED mass
                         ELSE UNCHANGED <<n, mass>>
                /\ heap' = [heap EXCEPT ![i] = setDate(heap[i], getDate(heap[i]) + 1)]
                /\ UNCHANGED <<result, pc>>
       ELSE /\ result' = mass
            /\ pc' = "done"
            /\ UNCHANGED <<heap, n, mass>>
  /\ UNCHANGED <<op, a, i, args, orig, prev>>

----------------------------------------------------------------------------

\* The call returns to the caller: locals and the objects only they referred
\* to are gone; the caller keeps its own Date value and remembers the result.
Return ==
  /\ pc = "done"
  /\ pc' = "idle"
  /\ prev' = IF op \in DateOps THEN [prev EXCEPT ![op] = [set |-> TRUE, val |-> result]]
             ELSE prev
  /\ heap' = [heap EXCEPT !["a"] = Undefined, !["b"] = Undefined]
  /\ a' = ""
  /\ i' = ""
  /\ n' = 0
  /\ mass' = <<>>
  /\ args' = <<>>
  /\ result' = Undefined
  /\ orig' = IF heap["date"] = Undefined THEN Undefined ELSE orig
  /\ op' = ""

Next ==
  \/ NewDate
  \/ Call_getNextFriday
  \/ Step_getNextFriday
  \/ Call_getNextFridayThe13th
  \/ Step_getNextFridayThe13th
  \/ Call_isLeapYear
  \/ Call_getWeekNumberByDate
  \/ Call_isDateInPeriod
  \/ Call_formatDate
  \/ Call_getCountDaysOnPeriod
  \/ Call_getWorkSchedule
  \/ Step_getWorkSchedule
  \/ Return

Spec == Init /\ [][Next]_vars

----------------------------------------------------------------------------
(* Reference notions the claims are stated with *)

Returned(f) == pc = "done" /\ op = f

\* The offsets 0..span whose position in the work/off cycle is a working day,
\* rendered as DD-MM-YYYY.
ExpectedSchedule(start, span, w, o) ==
  LET ks == SelectSeq([j \in 1..(span + 1) |-> j - 1], LAMBDA k : k % (w + o) < w)
  IN  [j \in 1..Len(ks) |-> DayMonthYear(start + ks[j])]

Hour12(h) == IF h % 12 = 0 THEN 12 ELSE h % 12

\* The fields of 'M/D/YYYY, h:mm:ss AM'.
OutParts(s) == Split(s, " ")

ClockFields(s) == Split(OutParts(s)[2], ":")

DateFields(s) == Split(SubSeq(OutParts(s)[1], 1, Len(OutParts(s)[1]) - 1), "/")

IsFriday13(day) == (day + 4) % 7 = 5 /\ CivilFromDays(day).d = 13

GregorianLeap(y) == (y % 4 = 0 /\ y % 100 # 0) \/ y % 400 = 0

\* ISO 8601 week number: the week (Monday..Sunday) belongs to the year of its
\* Thursday, and weeks are counted from the one holding that year's first Thursday.
IsoWeek(day) ==
  LET monday   == day - ((day + 3) % 7)
      thursday == monday + 3
      y        == CivilFromDays(thursday).y
  IN  (thursday - DaysFromCivil(y, 1, 1)) \div 7 + 1

----------------------------------------------------------------------------
(* Claims *)

C2_InPeriodIffBetween ==
  Returned("isDateInPeriod") =>
    (result <=> (orig.start <= orig.date /\ orig.date <= orig.end))

\* C3: formatDate shows the UTC hour on the 12-hour clock: 0 as 12 AM, 1..11 as
\* h AM, 12 as 12 PM, 13..23 as h - 12 PM; the printed hour is never 0.
C3_TwelveHourClock ==
  Returned("formatDate") =>
    /\ ClockFields(result)[1] = ToString(Hour12(getUTCHours(orig)))
    /\ OutParts(result)[3] = (IF getUTCHours(orig) < 12 THEN "AM" ELSE "PM")
    /\ ClockFields(result)[1] # "0"

\* C4: formatDate prints minute and second as exactly two characters (0..9 with
\* a leading zero) and month, day and hour without a leading zero.
C4_TwoDigitMinuteSecond ==
  Returned("formatDate") =>
    /\ ClockFields(result)[2] = TwoChars(getUTCMinutes(orig))
    /\ ClockFields(result)[3] = TwoChars(getUTCSeconds(orig))
    /\ Len(ClockFields(result)[2]) = 2
    /\ Len(ClockFields(result)[3]) = 2
    /\ DateFields(result)[1] = ToString(getUTCMonth(orig) + 1)
    /\ DateFields(result)[2] = ToString(getUTCDate(orig))
    /\ Len(ClockFields(result)[1]) = 1 \/ Head(ClockFields(result)[1]) # "0"

\* C5: getNextFriday returns a Friday strictly after the input's day and at most
\* 7 days after it, with no other Friday in between; for a Friday input the
\* result is 7 days later, at any time of day.
C5_NextFridayStrictlyAfter ==
  Returned("getNextFriday") =>
    /\ result.valid
    /\ getDay(result) = 5
    /\ result.day > orig.day
    /\ result.day <= orig.day + 7
    /\ \A k \in 1..6 : orig.day + k < result.day => (orig.day + k + 4) % 7 # 5
    /\ (orig.day + 4) % 7 = 5 => result.day = orig.day + 7

\* A Friday input that is not at midnight: the loop runs out before it sees
\* the seventh day and the function returns from after the loop.
C5_Witness ==
  /\ Returned("getNextFriday")
  /\ (orig.day + 4) % 7 = 5
  /\ orig.ms > 0
  /\ ~DateLE(heap[i], heap["b"])
  /\ result.day = orig.day + 7

\* C6: getNextFridayThe13th returns the earliest Friday the 13th at or after the
\* input whenever one lies within one year after it, also when it lies in the
\* following calendar year; it never returns undefined in that case.
C6_NextFridayThe13thWithinYear ==
  Returned("getNextFridayThe13th") =>
    \A k \in 0..365 :
      (IsFriday13(orig.day + k) /\ \A j \in 0..(k - 1) : ~IsFriday13(orig.day + j))
        => (result # Undefined /\ result.day = orig.day + k)

\* C7: getWeekNumberByDate returns the ISO 8601 week number of the date.
C7_IsoWeekNumber ==
  Returned("getWeekNumberByDate") => result = IsoWeek(orig.day)

\* C8: isLeapYear is true iff the year is divisible by 4 and not by 100, or is
\* divisible by 400.
C8_GregorianLeapYear ==
  Returned("isLeapYear") => (result <=> GregorianLeap(CivilFromDays(orig.day).y))

\* C9: getCountDaysOnPeriod returns the integer floor((end - start) / 86400000) + 1,
\* with no fractional part, also when the times of day differ.
C9_WholeDayCount ==
  Returned("getCountDaysOnPeriod") =>
    /\ result.num % result.den = 0
    /\ result.num \div result.den = DateDiff(orig.end, orig.start) \div MsPerDay + 1

\* C10: getNextFriday and getNextFridayThe13th leave the caller's Date value
\* unchanged on every path, and a second call with the same value returns what
\* the first call returned.
C10_InputUnchanged ==
  /\ heap["date"] # Undefined => heap["date"] = orig
  /\ \A f \in DateOps : (Returned(f) /\ prev[f].set) => result = prev[f].val

\* A second call of getNextFriday on a value getNextFridayThe13th was also
\* called with, returning from after the loop, whose copy was advanced 7 days.
C10_Witness ==
  /\ Returned("getNextFriday")
  /\ prev["getNextFriday"].set
  /\ prev["getNextFridayThe13th"].set
  /\ prev["getNextFridayThe13th"].val = Undefined
  /\ heap[a].day = orig.day + 7
  /\ heap["date"].day = orig.day

====
